---- MODULE Spec2Model ----
(***************************************************************************)
(* Model of create_excel_template.py: a straight-line script that ensures  *)
(* the directory client/public/templates, builds a fixed pandas DataFrame, *)
(* writes it as a styled .xlsx through openpyxl, prints a confirmation,    *)
(* writes it as .csv and prints a second confirmation.                     *)
(*                                                                         *)
(* The script's own statements are actions; what pandas, openpyxl and os   *)
(* do on the script's behalf (dtype inference, stringification, CSV and    *)
(* cell serialisation, makedirs, open-for-write) is modelled by operators  *)
(* that compute what those calls compute.  The environment (the starting   *)
(* filesystem, the wall clock, an I/O error striking a write) is           *)
(* nondeterministic.                                                       *)
(***************************************************************************)
EXTENDS Integers, Sequences, FiniteSets, TLC

VARIABLES
    pc,       \* the statement the process is about to run, or "done" / "failed"
    fs,       \* path component (1..3) -> "absent" | "dir" | "rodir" | "file"
    files,    \* "xlsx" | "csv" -> [perm, content] of the two output paths
    df,       \* the DataFrame (line 23), or NoFrame before it is built
    wb,       \* the open ExcelWriter's workbook (lines 27-42), or NoBook
    idx,      \* loop variable of the column width loop (line 40)
    out,      \* lines printed to standard output by this run
    clock,    \* wall clock, in seconds
    fault,    \* the write an I/O error (disk full) will strike, or "none"
    run,      \* which run of the script this is
    prev,     \* the output files as the previous run left them
    start,    \* the filesystem as this run found it
    steps     \* history: the statements this run has executed, in order

vars == <<pc, fs, files, df, wb, idx, out, clock, fault, run, prev, start, steps>>

\* ------------------------------------------------------------------ bounds

MaxClock == 2
MaxRuns == 2

\* ------------------------------------------------------------ basic helpers

Max(a, b) == IF a >= b THEN a ELSE b

RECURSIVE SeqMax(_)
SeqMax(s) == IF Len(s) = 1 THEN s[1] ELSE Max(s[1], SeqMax(Tail(s)))

\* str.split(sep) for a one-character separator: cut at the first separator,
\* split the rest
RECURSIVE Split(_, _)
Split(s, sep) ==
    LET at == {i \in 1..Len(s) : SubSeq(s, i, i) = sep}
    IN  IF at = {} THEN <<s>>
        ELSE LET i == CHOOSE m \in at : \A x \in at : m <= x
             IN  <<SubSeq(s, 1, i - 1)>> \o Split(SubSeq(s, i + 1, Len(s)), sep)

RECURSIVE Join(_, _)
Join(parts, sep) ==
    IF Len(parts) = 0 THEN ""
    ELSE IF Len(parts) = 1 THEN parts[1]
    ELSE parts[1] \o sep \o Join(Tail(parts), sep)

Contains(s, ch) == \E i \in 1..Len(s) : SubSeq(s, i, i) = ch

\* ------------------------------------------------- the script's constants

\* Python values of the literal table: int, str and None
IntV(n) == [t |-> "int", v |-> n]
StrV(s) == [t |-> "str", v |-> s]
None == [t |-> "None"]
\* values pandas introduces: float64 (all floats here are whole) and NaN
FloatV(n) == [t |-> "float", v |-> n]
NaN == [t |-> "nan"]

templates_dir == "client/public/templates"

excel_path == templates_dir \o "/domains-template.xlsx"

csv_path == templates_dir \o "/domains-template.csv"

sheet_name == "Domains Template"

dataBadTat ==
    << <<"Website URL", <<StrV("example.com"), StrV("blog-example.com"), StrV("multi-example.com")>> >>,
       <<"Domain Rating", <<IntV(75), IntV(68), IntV(72)>> >>,
       <<"Website Traffic", <<IntV(25000), IntV(18000), IntV(32000)>> >>,
       <<"Type", <<StrV("guest_post"), StrV("niche_edit"), StrV("both")>> >>,
       <<"Guest Post Price", <<IntV(350), None, IntV(400)>> >>,
       <<"Niche Edit Price", <<None, IntV(280), IntV(320)>> >>,
       <<"GP TAT (in days)", <<IntV(10), None, IntV(14)>> >>,
       <<"NE TAT (in days)", <<IntV(7), IntV(7), IntV(7)>> >>,
       <<"Guidelines", <<StrV("Please provide well-researched content"),
                         StrV("No branded anchor text"),
                         StrV("Must be related to tech industry")>> >> >>

\* the dict literal: insertion-ordered (key, list) pairs
data ==
    << <<"Website URL", <<StrV("example.com"), StrV("blog-example.com"), StrV("multi-example.com")>> >>,
       <<"Domain Rating", <<IntV(75), IntV(68), IntV(72)>> >>,
       <<"Website Traffic", <<IntV(25000), IntV(18000), IntV(32000)>> >>,
       <<"Type", <<StrV("guest_post"), StrV("niche_edit"), StrV("both")>> >>,
       <<"Guest Post Price", <<IntV(350), None, IntV(400)>> >>,
       <<"Niche Edit Price", <<None, IntV(280), IntV(320)>> >>,
       <<"GP TAT (in days)", <<IntV(10), None, IntV(14)>> >>,
       <<"NE TAT (in days)", <<None, IntV(7), IntV(7)>> >>,
       <<"Guidelines", <<StrV("Please provide well-researched content"),
                         StrV("No branded anchor text"),
                         StrV("Must be related to tech industry")>> >> >>

\* ------------------------------------------------------------ pd.DataFrame

\* dtype pandas infers for a list: int64 when every entry is an int, float64
\* when ints are mixed with None, object otherwise
InferDtype(list) ==
    IF \A i \in 1..Len(list) : list[i].t = "int" THEN "int64"
    ELSE IF \A i \in 1..Len(list) : list[i].t \in {"int", "None"} THEN "float64"
    ELSE "object"

\* one value as the column stores it: a float64 column holds every int as a
\* float and every None as NaN
Cast(dtype, val) ==
    IF dtype = "float64"
    THEN IF val.t = "None" THEN NaN ELSE FloatV(val.v)
    ELSE val

\* pd.DataFrame(data): columns in the dict's order, one row per list position
DataFrame(d) ==
    [columns |-> [j \in 1..Len(d) |-> d[j][1]],
     nrows   |-> Len(d[1][2]),
     dtypes  |-> [j \in 1..Len(d) |-> InferDtype(d[j][2])],
     values  |-> [j \in 1..Len(d) |->
                    [i \in 1..Len(d[j][2]) |-> Cast(InferDtype(d[j][2]), d[j][2][i])]]]

NoFrame == [columns |-> <<>>, nrows |-> 0, dtypes |-> <<>>, values |-> <<>>]

IsMissing(val) == val.t \in {"nan", "None"}

\* str(x) of one stored value, as Series.astype(str) applies it
PyStr(val) ==
    CASE val.t = "int"   -> ToString(val.v)
      [] val.t = "float" -> ToString(val.v) \o ".0"
      [] val.t = "nan"   -> "nan"
      [] val.t = "None"  -> "None"
      [] val.t = "str"   -> val.v

\* ---------------------------------------------------- df.to_excel / openpyxl

EmptyCell == [t |-> "empty", bold |-> FALSE]

\* the cell pandas hands to openpyxl for one stored value: na_rep "" for a
\* missing value (openpyxl writes "" as a cell with no value), a number for
\* int64 and float64, a string otherwise

ExcelCellNanText(val) ==
    CASE IsMissing(val)  -> [t |-> "s", v |-> PyStr(val), bold |-> FALSE]
      [] val.t = "str"   -> [t |-> "s", v |-> val.v, bold |-> FALSE]
      [] OTHER           -> [t |-> "n", v |-> val.v, bold |-> FALSE]

ExcelCell(val) ==
    CASE IsMissing(val)  -> EmptyCell
      [] val.t = "str"   -> [t |-> "s", v |-> val.v, bold |-> FALSE]
      [] OTHER           -> [t |-> "n", v |-> val.v, bold |-> FALSE]

\* pandas' default header style is bold
HeaderCell(name) == [t |-> "s", v |-> name, bold |-> TRUE]

\* the cells df.to_excel(writer, sheet_name=..., index=index) writes: the header
\* in row 1, the rows from row 2; with index=True a first column holds the
\* RangeIndex and every column of the frame moves one to the right
ToExcel(frame, index) ==
    LET off   == IF index THEN 1 ELSE 0
        ncols == Len(frame.columns) + off
    IN  [rc \in (1..(frame.nrows + 1)) \X (1..ncols) |->
            IF index /\ rc[2] = 1
            THEN IF rc[1] = 1 THEN EmptyCell
                 ELSE [t |-> "n", v |-> rc[1] - 2, bold |-> TRUE]
            ELSE IF rc[1] = 1 THEN HeaderCell(frame.columns[rc[2] - off])
                 ELSE ExcelCell(frame.values[rc[2] - off][rc[1] - 1])]

ToExcelWithIndex(frame) == ToExcel(frame, TRUE)

\* line 28: index=False
ToExcelCall(frame) == ToExcel(frame, FALSE)

NoWidths == [x \in {} |-> 0]

NoBook == [created |-> -1, sheets |-> <<>>]

\* worksheet.max_row / max_column
MaxRow(cells) == IF DOMAIN cells = {} THEN 0
                 ELSE CHOOSE r \in {rc[1] : rc \in DOMAIN cells} :
                        \A rc \in DOMAIN cells : rc[1] <= r

MaxColumn(cells) == IF DOMAIN cells = {} THEN 0
                    ELSE CHOOSE c \in {rc[2] : rc \in DOMAIN cells} :
                           \A rc \in DOMAIN cells : rc[2] <= c

\* openpyxl's text of a cell's value in the sheet XML: a number goes through
\* "%.16g", which prints a whole float without a fraction
CellText(cell) ==
    CASE cell.t = "empty" -> ""
      [] cell.t = "s"     -> cell.v
      [] cell.t = "n"     -> ToString(cell.v)

Letters == "ABCDEFGHIJKLMNOPQRSTUVWXYZ"

\* chr(n) on the codes 64..90: "@", then the capital letters
Ascii64 == "@ABCDEFGHIJKLMNOPQRSTUVWXYZ"

ChrOffByOne(n) == SubSeq(Ascii64, n - 64, n - 64)

Chr(n) == SubSeq(Ascii64, n - 63, n - 63)

\* openpyxl.utils.get_column_letter: the letter of the column at a 1-based
\* position (A..Z, then AA, AB, ...)
RECURSIVE ColumnLetter(_)
ColumnLetter(c) ==
    IF c <= 26 THEN SubSeq(Letters, c, c)
    ELSE ColumnLetter((c - 1) \div 26) \o SubSeq(Letters, ((c - 1) % 26) + 1, ((c - 1) % 26) + 1)

\* line 41: max(len(col) + 2, df[col].astype(str).map(len).max() + 2), for the
\* column at 1-based position j
ColumnWidthNoPad(frame, j) ==
    Max(Len(frame.columns[j]),
        SeqMax([i \in 1..frame.nrows |-> Len(PyStr(frame.values[j][i]))]))

ColumnWidth(frame, j) ==
    Max(Len(frame.columns[j]) + 2,
        SeqMax([i \in 1..frame.nrows |-> Len(PyStr(frame.values[j][i]))]) + 2)

\* ------------------------------------------------------------- df.to_csv

\* csv.QUOTE_MINIMAL: a field is quoted only when it holds the delimiter, the
\* quote character or a line break; embedded quotes are doubled
NeedsQuote(s) == Contains(s, ",") \/ Contains(s, "\"") \/ Contains(s, "\n") \/ Contains(s, "\r")

CsvQuote(s) == IF NeedsQuote(s) THEN "\"" \o Join(Split(s, "\""), "\"\"") \o "\"" ELSE s

\* one field: na_rep "" for a missing value, repr of a float, str of an int
CsvField(val) ==
    IF IsMissing(val) THEN "" ELSE CsvQuote(PyStr(val))

ToCsv(frame, index) ==
    LET pre(i) == IF index THEN <<(IF i = 0 THEN "" ELSE ToString(i - 1))>> ELSE <<>>
    IN  [i \in 1..(frame.nrows + 1) |->
            IF i = 1
            THEN Join(pre(0) \o [j \in 1..Len(frame.columns) |-> CsvQuote(frame.columns[j])], ",")
            ELSE Join(pre(i - 1) \o [j \in 1..Len(frame.columns) |-> CsvField(frame.values[j][i - 1])], ",")]

\* a generator that stamps its output with the time of the run
ToCsvStamped(frame) == ToCsv(frame, FALSE) \o <<ToString(clock)>>

\* line 48: index=False
ToCsvCall(frame) == ToCsv(frame, FALSE)

\* ------------------------------------------------------------ os.makedirs

Parts == Split(templates_dir, "/")

Depth == Len(Parts)

IsDir(state) == state \in {"dir", "rodir"}

\* os.makedirs of the k-th component of the path (client, client/public,
\* client/public/templates) with exist_ok: create the missing ancestors, then mkdir;
\* an OSError of mkdir is swallowed only when exist_ok and the path is a
\* directory.  The working directory is a writable directory.
RECURSIVE Makedirs(_, _, _)
Makedirs(f, k, exist_ok) ==
    LET pre == IF k > 1 /\ f[k - 1] = "absent"
               THEN Makedirs(f, k - 1, exist_ok)
               ELSE [ok |-> TRUE, fs |-> f]
        g == pre.fs
        parent == IF k = 1 THEN "dir" ELSE g[k - 1]
    IN  IF ~pre.ok THEN pre
        ELSE IF g[k] # "absent" THEN [ok |-> exist_ok /\ IsDir(g[k]), fs |-> g]
        ELSE IF parent = "dir" THEN [ok |-> TRUE, fs |-> [g EXCEPT ![k] = "dir"]]
        ELSE [ok |-> FALSE, fs |-> g]

MakedirsNoExistOk(f) == Makedirs(f, Depth, FALSE)

\* line 7: exist_ok=True
MakedirsCall(f) == Makedirs(f, Depth, TRUE)

\* open(path, "w") / open(path, "wb") in the templates directory: an existing
\* file must be writable, a new one needs a writable directory
CanOpenW(f, file) ==
    /\ IsDir(f[Depth])
    /\ \/ file.perm = "rw"
       \/ file.perm = "absent" /\ f[Depth] = "dir"

AbsentFile == [perm |-> "absent", content |-> [kind |-> "absent"]]

StaleFile(perm) == [perm |-> perm, content |-> [kind |-> "stale"]]

\* the open truncates an existing file and creates a missing one
Truncated == [perm |-> "rw", content |-> [kind |-> "empty"]]

\* what a write cut short by an I/O error leaves behind
Partial == [perm |-> "rw", content |-> [kind |-> "partial"]]

\* ------------------------------------------------------------ the process

DirStates == {"absent", "dir", "rodir", "file"}

\* a path component can exist only inside a directory
ValidFs == {f \in [1..Depth -> DirStates] :
              \A k \in 2..Depth : f[k] # "absent" => IsDir(f[k - 1])}

\* the output paths can hold a file only when the templates directory exists
ValidFiles(f) ==
    IF IsDir(f[Depth])
    THEN [xlsx : {AbsentFile, StaleFile("rw"), StaleFile("ro")},
          csv  : {AbsentFile, StaleFile("rw"), StaleFile("ro")}]
    ELSE {[xlsx |-> AbsentFile, csv |-> AbsentFile]}

Faults == {"none", "xlsx", "csv"}

Init ==
    /\ pc = "makedirs"
    /\ fs \in ValidFs
    /\ files \in ValidFiles(fs)
    /\ df = NoFrame
    /\ wb = NoBook
    /\ idx = 0
    /\ out = <<>>
    /\ clock = 0
    /\ fault \in Faults
    /\ run = 1
    /\ prev = files
    /\ start = [fs |-> fs, files |-> files]
    /\ steps = <<>>

\* the call wrapped in try / except: pass
EnsureDirSwallow ==
    /\ pc = "makedirs"
    /\ fs' = MakedirsCall(fs).fs
    /\ pc' = "dataframe"
    /\ steps' = Append(steps, "makedirs")
    /\ UNCHANGED <<files, df, wb, idx, out, clock, fault, run, prev, start>>

\* line 7: os.makedirs(templates_dir, exist_ok=True)
EnsureDir ==
    /\ pc = "makedirs"
    /\ LET r == MakedirsCall(fs)
       IN  /\ fs' = r.fs
           /\ pc' = IF r.ok THEN "dataframe" ELSE "failed"
    /\ steps' = Append(steps, "makedirs")
    /\ UNCHANGED <<files, df, wb, idx, out, clock, fault, run, prev, start>>

\* lines 10-23: data = {...}; df = pd.DataFrame(data)
BuildFrame ==
    /\ pc = "dataframe"
    /\ df' = DataFrame(data)
    /\ pc' = "open"
    /\ steps' = Append(steps, "dataframe")
    /\ UNCHANGED <<fs, files, wb, idx, out, clock, fault, run, prev, start>>

\* lines 26-27: pd.ExcelWriter(excel_path, engine="openpyxl") opens the path
\* for writing and starts an empty workbook, stamped with the time of creation
OpenWriter ==
    /\ pc = "open"
    /\ IF CanOpenW(fs, files.xlsx)
       THEN /\ files' = [files EXCEPT !.xlsx = Truncated]
            /\ wb' = [created |-> clock, sheets |-> <<>>]
            /\ pc' = "to_excel"
       ELSE /\ pc' = "failed"
            /\ UNCHANGED <<files, wb>>
    /\ steps' = Append(steps, "open")
    /\ UNCHANGED <<fs, df, idx, out, clock, fault, run, prev, start>>

\* line 28: df.to_excel(writer, sheet_name="Domains Template", index=False)
WriteSheet ==
    /\ pc = "to_excel"
    /\ wb' = [wb EXCEPT !.sheets = Append(@, [title  |-> sheet_name,
                                               cells  |-> ToExcelCall(df),
                                               widths |-> NoWidths])]
    /\ pc' = "bold"
    /\ steps' = Append(steps, "to_excel")
    /\ UNCHANGED <<fs, files, df, idx, out, clock, fault, run, prev, start>>

\* writer.sheets["Domains Template"]: the position of the sheet of that title
SheetIndex(book, title) == CHOOSE k \in 1..Len(book.sheets) : book.sheets[k].title = title

\* lines 35-37: for col_num, value in enumerate(df.columns.values):
\*                  worksheet.cell(row=1, column=col_num+1).font = Font(bold=True)
FormatHeaders ==
    /\ pc = "bold"
    /\ LET k == SheetIndex(wb, sheet_name)
           hdr == {<<1, col_num + 1>> : col_num \in 0..(Len(df.columns) - 1)}
       IN  wb' = [wb EXCEPT !.sheets[k].cells =
                     [rc \in DOMAIN @ |-> IF rc \in hdr THEN [@[rc] EXCEPT !.bold = TRUE]
                                          ELSE @[rc]]]
    /\ pc' = "width"
    /\ idx' = 0
    /\ steps' = Append(steps, "bold")
    /\ UNCHANGED <<fs, files, df, out, clock, fault, run, prev, start>>

\* lines 40-42, one iteration: worksheet.column_dimensions[chr(65 + idx)].width
AdjustWidth ==
    /\ pc = "width"
    /\ idx < Len(df.columns)
    /\ LET k == SheetIndex(wb, sheet_name)
       IN  wb' = [wb EXCEPT !.sheets[k].widths =
                     (Chr(65 + idx) :> ColumnWidth(df, idx + 1)) @@ @]
    /\ idx' = idx + 1
    /\ steps' = Append(steps, "width")
    /\ UNCHANGED <<pc, fs, files, df, out, clock, fault, run, prev, start>>

\* the end of the with block: the writer saves the workbook to the open file,
\* stamped with the time of the save
CloseWriter ==
    /\ pc = "width"
    /\ idx = Len(df.columns)
    /\ IF fault = "xlsx"
       THEN /\ files' = [files EXCEPT !.xlsx = Partial]
            /\ pc' = "failed"
       ELSE /\ files' = [files EXCEPT !.xlsx =
                            [perm |-> "rw",
                             content |-> [kind |-> "xlsx", created |-> wb.created,
                                          modified |-> clock, sheets |-> wb.sheets]]]
            /\ pc' = "print_xlsx"
    /\ steps' = Append(steps, "close")
    /\ UNCHANGED <<fs, df, wb, idx, out, clock, fault, run, prev, start>>

\* line 44
PrintExcel ==
    /\ pc = "print_xlsx"
    /\ out' = Append(out, "Excel template created successfully at " \o excel_path)
    /\ pc' = "to_csv"
    /\ steps' = Append(steps, "print_xlsx")
    /\ UNCHANGED <<fs, files, df, wb, idx, clock, fault, run, prev, start>>

\* lines 47-48: df.to_csv(csv_path, index=False)
WriteCsv ==
    /\ pc = "to_csv"
    /\ IF ~CanOpenW(fs, files.csv)
       THEN /\ pc' = "failed"
            /\ UNCHANGED files
       ELSE IF fault = "csv"
       THEN /\ files' = [files EXCEPT !.csv = Partial]
            /\ pc' = "failed"
       ELSE /\ files' = [files EXCEPT !.csv =
                            [perm |-> "rw",
                             content |-> [kind |-> "csv", lines |-> ToCsvCall(df)]]]
            /\ pc' = "print_csv"
    /\ steps' = Append(steps, "to_csv")
    /\ UNCHANGED <<fs, df, wb, idx, out, clock, fault, run, prev, start>>

\* the second message built from the first one's path
PrintCsvExcelPath ==
    /\ pc = "print_csv"
    /\ out' = Append(out, "CSV template created successfully at " \o excel_path)
    /\ pc' = "done"
    /\ steps' = Append(steps, "print_csv")
    /\ UNCHANGED <<fs, files, df, wb, idx, clock, fault, run, prev, start>>

\* line 49
PrintCsv ==
    /\ pc = "print_csv"
    /\ out' = Append(out, "CSV template created successfully at " \o csv_path)
    /\ pc' = "done"
    /\ steps' = Append(steps, "print_csv")
    /\ UNCHANGED <<fs, files, df, wb, idx, clock, fault, run, prev, start>>

\* the operator runs the script again, on the filesystem the last run left
Rerun ==
    /\ pc = "done"
    /\ run < MaxRuns
    /\ run' = run + 1
    /\ pc' = "makedirs"
    /\ prev' = files
    /\ start' = [fs |-> fs, files |-> files]
    /\ df' = NoFrame
    /\ wb' = NoBook
    /\ idx' = 0
    /\ out' = <<>>
    /\ steps' = <<>>
    /\ fault' \in Faults
    /\ UNCHANGED <<fs, files, clock>>

\* time passes
Tick ==
    /\ pc # "failed"
    /\ clock < MaxClock
    /\ clock' = clock + 1
    /\ UNCHANGED <<pc, fs, files, df, wb, idx, out, fault, run, prev, start, steps>>

\* the statements of the script (lines 5-49)
Script ==
    \/ EnsureDir
    \/ BuildFrame
    \/ OpenWriter
    \/ WriteSheet
    \/ FormatHeaders
    \/ AdjustWidth
    \/ CloseWriter
    \/ PrintExcel
    \/ WriteCsv
    \/ PrintCsv

Next ==
    \/ Script
    \/ Rerun
    \/ Tick

Spec == Init /\ [][Next]_vars

\* ------------------------------------------------------------------ claims

Xlsx == files.xlsx.content

Csv == files.csv.content

Done == pc = "done"

SetMax(S) == CHOOSE m \in S : \A x \in S : x <= m

ExpectedHeaders ==
    <<"Website URL", "Domain Rating", "Website Traffic", "Type", "Guest Post Price",
      "Niche Edit Price", "GP TAT (in days)", "NE TAT (in days)", "Guidelines">>

ExpectedUrls == <<"example.com", "blog-example.com", "multi-example.com">>

\* C1: after a run that completes, the spreadsheet has exactly one sheet, named
\* "Domains Template", exactly 4 rows and 9 columns, the 9 headers in the order
\* of the in-memory table, and the 3 data rows in the declared order.
C1_SheetShape ==
    Done =>
        /\ Xlsx.kind = "xlsx"
        /\ Len(Xlsx.sheets) = 1
        /\ Xlsx.sheets[1].title = "Domains Template"
        /\ LET cells == Xlsx.sheets[1].cells
           IN  /\ MaxRow(cells) = 4
               /\ MaxColumn(cells) = 9
               /\ DOMAIN cells = (1..4) \X (1..9)
               /\ \A j \in 1..9 : /\ cells[<<1, j>>].t = "s"
                                  /\ cells[<<1, j>>].v = ExpectedHeaders[j]
                                  /\ cells[<<1, j>>].v = df.columns[j]
               /\ Len(df.columns) = 9
               /\ \A i \in 1..3 : /\ cells[<<i + 1, 1>>].t = "s"
                                  /\ cells[<<i + 1, 1>>].v = ExpectedUrls[i]

C1_Witness ==
    /\ Done
    /\ start.fs[1] = "absent"
    /\ Xlsx.kind = "xlsx"
    /\ MaxRow(Xlsx.sheets[1].cells) = 4

\* the declared value of column j, row i of the dict literal (lines 10-20)
Declared(j, i) == data[j][2][i]

\* C2: in the spreadsheet every absence marker of the table is an empty cell and
\* every present value equals the declared value; row 2 is example.com with
\* 75, 25000, guest_post, 350, empty, 10, empty and row 4 is multi-example.com
\* with both, 400, 320, 14, 7.
C2_CellValues ==
    Done =>
        LET cells == Xlsx.sheets[1].cells
            num(r, c, n) == cells[<<r, c>>].t = "n" /\ cells[<<r, c>>].v = n
            txt(r, c, x) == cells[<<r, c>>].t = "s" /\ cells[<<r, c>>].v = x
            empty(r, c) == cells[<<r, c>>].t = "empty"
        IN  /\ \A j \in 1..9 : \A i \in 1..3 :
                 /\ (Declared(j, i).t = "None") <=> empty(i + 1, j)
                 /\ (IsMissing(df.values[j][i])) <=> empty(i + 1, j)
                 /\ Declared(j, i).t = "int" => num(i + 1, j, Declared(j, i).v)
                 /\ Declared(j, i).t = "str" => txt(i + 1, j, Declared(j, i).v)
            /\ txt(2, 1, "example.com")
            /\ num(2, 2, 75) /\ num(2, 3, 25000) /\ txt(2, 4, "guest_post")
            /\ num(2, 5, 350) /\ empty(2, 6) /\ num(2, 7, 10) /\ empty(2, 8)
            /\ txt(4, 1, "multi-example.com")
            /\ txt(4, 4, "both") /\ num(4, 5, 400) /\ num(4, 6, 320)
            /\ num(4, 7, 14) /\ num(4, 8, 7)

C2_Witness ==
    /\ Done
    /\ Xlsx.kind = "xlsx"
    /\ Xlsx.sheets[1].cells[<<2, 6>>].t = "empty"
    /\ Xlsx.sheets[1].cells[<<4, 6>>].t = "n"
    /\ IsMissing(df.values[6][1])

\* the sheet the width loop has written to: the open workbook's, while the
\* writer block runs and after it
SheetOpen == pc \in {"width", "print_xlsx", "to_csv", "print_csv", "done"}

ExpectedWidths == <<19, 15, 17, 12, 18, 18, 18, 18, 40>>

\* C6: for every column the applied width is max(len(header), max over the rows
\* of len(str(value))) + 2, an absence marker stringified like any value; the
\* Guidelines width is at least len("Guidelines") + 2 and at least the longest
\* guideline + 2.  Checked for each column once its iteration has run, and on
\* the saved file.
C6_ColumnWidths ==
    /\ SheetOpen =>
          LET widths == wb.sheets[1].widths
          IN  \A j \in 1..idx :
                 LET lens == {Len(PyStr(df.values[j][i])) : i \in 1..df.nrows}
                 IN  /\ ColumnLetter(j) \in DOMAIN widths
                     /\ widths[ColumnLetter(j)] =
                            SetMax(lens \cup {Len(df.columns[j])}) + 2
                     /\ widths[ColumnLetter(j)] = ExpectedWidths[j]
                     /\ \A i \in 1..df.nrows :
                           IsMissing(df.values[j][i]) => 3 \in lens
    /\ Done =>
          /\ Xlsx.sheets[1].widths = wb.sheets[1].widths
          /\ Xlsx.sheets[1].widths["I"] >= Len("Guidelines") + 2
          /\ Xlsx.sheets[1].widths["I"] >= Len("Please provide well-researched content") + 2

C6_Witness ==
    /\ Done
    /\ Xlsx.kind = "xlsx"
    /\ DOMAIN Xlsx.sheets[1].widths = {"A", "B", "C", "D", "E", "F", "G", "H", "I"}
    /\ Xlsx.sheets[1].widths["I"] = 40

\* C10: the width of the column at 0-based position i goes to the slot
\* chr(65 + i), which is the sheet column (position i + 1) holding that
\* column's header and values; the 9 columns take the 9 distinct slots A..I in
\* order, no width lands in another column's slot and no slot outside A..Z is
\* addressed.
C10_WidthSlots ==
    SheetOpen =>
        LET sheet == wb.sheets[1]
        IN  /\ DOMAIN sheet.widths = {ColumnLetter(j) : j \in 1..idx}
            /\ Cardinality(DOMAIN sheet.widths) = idx
            /\ DOMAIN sheet.widths \subseteq {SubSeq(Letters, k, k) : k \in 1..26}
            /\ \A j \in 1..idx :
                  /\ SubSeq("ABCDEFGHI", j, j) \in DOMAIN sheet.widths
                  /\ sheet.cells[<<1, j>>].v = df.columns[j]
                  /\ \A i \in 1..df.nrows :
                        sheet.cells[<<i + 1, j>>] = ExcelCell(df.values[j][i])
                  /\ sheet.widths[ColumnLetter(j)] = ColumnWidth(df, j)
            /\ (pc # "width") => idx = 9

C10_Witness ==
    /\ pc = "width"
    /\ idx = 9
    /\ DOMAIN wb.sheets[1].widths = {"A", "B", "C", "D", "E", "F", "G", "H", "I"}

\* whether this run has executed the named write and the write succeeded
Written(step) == \E i \in DOMAIN steps : steps[i] = step /\ ~(pc = "failed" /\ i = Len(steps))

\* the position of the column of a given name in the table
ColIndex(name) == CHOOSE j \in 1..Len(ExpectedHeaders) : ExpectedHeaders[j] = name

\* a row is consistent with its Type: present(name) says whether the row holds
\* a value in the named column
Consistent(type, present(_)) ==
    /\ type \in {"guest_post", "niche_edit", "both"}
    /\ present("Guest Post Price") <=> type \in {"guest_post", "both"}
    /\ present("Niche Edit Price") <=> type \in {"niche_edit", "both"}
    /\ present("GP TAT (in days)") <=> present("Guest Post Price")
    /\ present("NE TAT (in days)") <=> present("Niche Edit Price")

\* C7: every row is consistent with its Type (Guest Post Price present exactly
\* for guest_post and both, Niche Edit Price exactly for niche_edit and both,
\* each TAT present exactly when its price is), in the table once built and in
\* the rows of each output file once this run has written it.
C7_TypeConsistency ==
    /\ df # NoFrame =>
          /\ df.nrows = 3
          /\ \A i \in 1..df.nrows :
                LET has(name) == ~IsMissing(df.values[ColIndex(name)][i])
                IN  Consistent(df.values[ColIndex("Type")][i].v, has)
    /\ Written("close") =>
          \A r \in 2..MaxRow(Xlsx.sheets[1].cells) :
                LET has(name) == Xlsx.sheets[1].cells[<<r, ColIndex(name)>>].t # "empty"
                IN  Consistent(Xlsx.sheets[1].cells[<<r, ColIndex("Type")>>].v, has)
    /\ Written("to_csv") =>
          \A r \in 2..Len(Csv.lines) :
                LET fields == Split(Csv.lines[r], ",")
                    has(name) == fields[ColIndex(name)] # ""
                IN  Consistent(fields[ColIndex("Type")], has)

C7_Witness ==
    /\ Done
    /\ Xlsx.kind = "xlsx"
    /\ Csv.kind = "csv"
    /\ Len(Csv.lines) = 4
    /\ Split(Csv.lines[2], ",")[ColIndex("Type")] = "guest_post"
    /\ Split(Csv.lines[2], ",")[ColIndex("NE TAT (in days)")] = ""
    /\ Xlsx.sheets[1].cells[<<4, ColIndex("NE TAT (in days)")>>].t = "n"

\* C4: the delimited-text file, each line split on commas, matches the
\* spreadsheet row for row and field for field in string value: 4 lines of 9
\* fields, an absence marker an empty field, every present value the same text
\* in both outputs.
C4_CsvMatchesSheet ==
    Done =>
        /\ Len(Csv.lines) = 4
        /\ \A r \in 1..4 :
              /\ Len(Split(Csv.lines[r], ",")) = 9
              /\ \A c \in 1..9 :
                    Split(Csv.lines[r], ",")[c] = CellText(Xlsx.sheets[1].cells[<<r, c>>])

\* the second and later runs
Reran == run > 1 /\ Done

\* C3 as stated: a second run leaves both output files byte-for-byte as the
\* first run left them.
C3_ByteIdentical ==
    Reran => /\ Xlsx = prev.xlsx.content
             /\ Csv = prev.csv.content

\* C3 as amended: a second run leaves the delimited-text file byte-for-byte as
\* the first left it and the spreadsheet with the same sheets (name, cells,
\* styling, widths); the spreadsheet file also holds the times the workbook
\* was created and saved, and is byte-for-byte the same exactly when those
\* times are the same.
C3_SameContent ==
    Reran => /\ Csv = prev.csv.content
             /\ Xlsx.kind = "xlsx" /\ prev.xlsx.content.kind = "xlsx"
             /\ Xlsx.sheets = prev.xlsx.content.sheets
             /\ (Xlsx = prev.xlsx.content) <=>
                   /\ Xlsx.created = prev.xlsx.content.created
                   /\ Xlsx.modified = prev.xlsx.content.modified

C3_Witness ==
    /\ Reran
    /\ Csv.kind = "csv"
    /\ Csv = prev.csv.content
    /\ Xlsx.created # prev.xlsx.content.created

\* the statement this run executed last
Last == steps[Len(steps)]

Count(seq, x) == Cardinality({i \in DOMAIN seq : seq[i] = x})

\* C8: a failure of the directory creation, the spreadsheet write or the
\* delimited-text write ends the run, failed, at that step: the step is not
\* retried, no later step runs (after a failed directory creation no file is
\* written; after a failed spreadsheet write nothing is printed and the
\* delimited-text file is neither written nor confirmed), and nothing on disk
\* is cleaned up, so a partial file stays.
C8_FailStop ==
    /\ pc = "failed" =>
          /\ Len(steps) > 0
          /\ Last \in {"makedirs", "open", "close", "to_csv"}
          /\ Count(steps, Last) = 1
          /\ ~ENABLED Script
          /\ Last = "makedirs" =>
                /\ ~MakedirsCall(start.fs).ok
                /\ files = start.files
                /\ out = <<>>
                /\ df = NoFrame /\ wb = NoBook
          /\ Last = "open" => files = start.files /\ out = <<>>
          /\ Last = "close" =>
                /\ files.xlsx = Partial
                /\ files.csv = start.files.csv
                /\ out = <<>>
          /\ Last = "to_csv" =>
                /\ Xlsx.kind = "xlsx"
                /\ files.csv \in {start.files.csv, Partial}
                /\ Len(out) = 1
          /\ \A k \in 1..Depth : start.fs[k] # "absent" => fs[k] = start.fs[k]
          /\ \A k \in 1..Depth : fs[k] = "absent" => MakedirsCall(start.fs).fs[k] = "absent"
    /\ pc \notin {"makedirs", "failed"} => IsDir(fs[Depth])
    /\ Len(out) >= 1 => Xlsx.kind = "xlsx"
    /\ (Csv.kind = "csv" /\ Csv # start.files.csv.content) => Len(out) >= 1

C8_Witness ==
    /\ pc = "failed"
    /\ Last = "close"
    /\ files.xlsx = Partial
    /\ start.files.xlsx = StaleFile("rw")

\* the statements of a complete run, in source order
Canonical ==
    <<"makedirs", "dataframe", "open", "to_excel", "bold">>
    \o [i \in 1..9 |-> "width"]
    \o <<"close", "print_xlsx", "to_csv", "print_csv">>

IsPrefix(a, b) == Len(a) <= Len(b) /\ a = SubSeq(b, 1, Len(a))

FilesWritten == (IF Written("close") THEN 1 ELSE 0) + (IF Written("to_csv") THEN 1 ELSE 0)

EndsWith(s, tail) == Len(s) >= Len(tail) /\ SubSeq(s, Len(s) - Len(tail) + 1, Len(s)) = tail

\* the steps run in source order, each confirmation names the path of the file
\* written before it, and none is printed before its file is persisted
OrderAndNaming ==
    /\ IsPrefix(steps, Canonical)
    /\ Len(out) <= 2
    /\ Len(out) >= 1 =>
          /\ EndsWith(out[1], "client/public/templates/domains-template.xlsx")
          /\ Written("close") /\ Xlsx.kind = "xlsx"
    /\ Len(out) = 2 =>
          /\ EndsWith(out[2], "client/public/templates/domains-template.csv")
          /\ Written("to_csv") /\ Csv.kind = "csv"

\* C9 as stated: the steps run in order, and in every reachable state the
\* number of confirmation lines printed equals the number of files fully
\* written so far.
C9_LinesEqualFiles ==
    /\ OrderAndNaming
    /\ Len(out) = FilesWritten

\* C9 as amended: the steps run in order, each confirmation names its file and
\* follows its persistence; the number of confirmation lines never exceeds the
\* number of files fully written and is one less exactly between a file's
\* write and its confirmation.
C9_LinesFollowFiles ==
    /\ OrderAndNaming
    /\ Len(out) <= FilesWritten
    /\ FilesWritten <= Len(out) + 1
    /\ (FilesWritten = Len(out) + 1) <=> pc \in {"print_xlsx", "print_csv"}
    /\ Done => Len(out) = 2 /\ FilesWritten = 2 /\ steps = Canonical

C9_Witness ==
    /\ pc = "print_csv"
    /\ Len(out) = 1
    /\ FilesWritten = 2
    /\ Csv.kind = "csv"

\* the deepest path component that exists (0: none of them)
Nearest(f) == SetMax({0} \cup {k \in 1..Depth : f[k] # "absent"})

\* the templates directory is absent or an existing writable directory
StartCovered == start.fs[Depth] \in {"absent", "dir"}

RunSucceeds ==
    /\ pc # "failed"
    /\ pc # "makedirs" =>
          \A k \in 1..Depth :
             fs[k] = IF start.fs[k] = "absent" THEN "dir" ELSE start.fs[k]
    /\ Done => /\ fs[Depth] = "dir"
               /\ Xlsx.kind = "xlsx" /\ files.xlsx.perm = "rw"
               /\ Csv.kind = "csv" /\ files.csv.perm = "rw"

====
